---- MODULE Spec2Model ----
(***************************************************************************)
(* Model of the sos_Python language adapter (src/src/sos_python/kernel.py) *)
(* and of the helper routines it injects in the target interpreter.        *)
(*                                                                         *)
(* Strings are sequences of character codes, byte strings are sequences of *)
(* byte values; the codecs that sit between the two interpreters (pickle's *)
(* string opcodes, repr() of a byte string, eval() of the literal, utf-8)  *)
(* are computed code by code.                                              *)
(***************************************************************************)
EXTENDS Integers, Sequences, FiniteSets, TLC

\* kernel_name    self.kernel_name of the adapter: "python3" or "python2"
\* sos_dict       env.sos_dict, the orchestrator's store, name -> value
\* globals        globals() of the target interpreter, name -> value
\* pickle_global  what the name pickle is bound to in the target's globals()
\* modules        the modules the target's globals() binds, in import order
\* call           the adapter call in progress: its arguments, the requests
\*                it sent to the bridge, its warnings and its outcome
VARIABLES kernel_name, sos_dict, globals, pickle_global, modules, call

vars == <<kernel_name, sos_dict, globals, pickle_global, modules, call>>

(***************************************************************************)
(* Bounds of the model.                                                    *)
(***************************************************************************)
\* longest list of names handed to get_vars / put_vars
MaxItems == 2
\* longest list value whose short representation is computed
MaxLen == 4
\* longest template handed to expand, in tokens
MaxText == 3

(***************************************************************************)
(* Values of the two interpreters.                                         *)
(***************************************************************************)
IntV(n) == [t |-> "int", v |-> n]
BoolV(b) == [t |-> "bool", v |-> b]
StrV(s) == [t |-> "str", v |-> s]
ListV(xs) == [t |-> "list", v |-> xs]
TupleV(xs) == [t |-> "tuple", v |-> xs]
NoneV == [t |-> "NoneType", v |-> <<>>]
\* a lambda: callable, and not serializable by pickle
FuncV == [t |-> "function", v |-> <<>>]
\* an imported module, by name: not serializable by pickle
ModuleV(name) == [t |-> "module", v |-> name]
\* a mapping from names to values
DictV(m) == [t |-> "dict", v |-> m]
\* the rendering pydoc.render_doc gives for a module or a callable
DocV == [t |-> "doc", v |-> <<>>]
\* an ASCII text, as its pieces: every codec leaves it as it is
TextV(pieces) == [t |-> "text", v |-> pieces]

\* 'A' and e-acute: an ASCII character and one of the Latin-1 range
CharCodes == {65, 233}

IsContainer(x) == x.t \in {"list", "tuple"}

RECURSIVE Picklable(_)
Picklable(x) ==
    IF IsContainer(x)
    THEN \A i \in 1..Len(x.v) : Picklable(x.v[i])
    ELSE IF x.t = "dict"
    THEN \A k \in DOMAIN x.v : Picklable(x.v[k])
    ELSE x.t \notin {"function", "module"}

(***************************************************************************)
(* Codecs.                                                                 *)
(***************************************************************************)
HexDigit(d) == IF d < 10 THEN 48 + d ELSE 87 + d
HexValue(c) == IF c >= 97 THEN c - 87 ELSE c - 48

\* str.encode('utf-8'), for code points below U+0800
RECURSIVE Utf8Encode(_)
Utf8Encode(s) ==
    IF s = <<>> THEN <<>>
    ELSE (IF Head(s) < 128 THEN <<Head(s)>>
          ELSE <<192 + (Head(s) \div 64), 128 + (Head(s) % 64)>>)
         \o Utf8Encode(Tail(s))

RECURSIVE Utf8Valid(_)
Utf8Valid(b) ==
    IF b = <<>> THEN TRUE
    ELSE IF Head(b) < 128 THEN Utf8Valid(Tail(b))
    ELSE /\ Head(b) >= 194 /\ Head(b) < 224
         /\ Len(b) >= 2 /\ b[2] >= 128 /\ b[2] < 192
         /\ Utf8Valid(Tail(Tail(b)))

\* bytes.decode('utf-8') of a valid sequence
RECURSIVE Utf8Decode(_)
Utf8Decode(b) ==
    IF b = <<>> THEN <<>>
    ELSE IF Head(b) < 128 THEN <<Head(b)>> \o Utf8Decode(Tail(b))
    ELSE <<(Head(b) - 192) * 64 + (b[2] - 128)>> \o Utf8Decode(Tail(Tail(b)))

\* the text pickle protocol 0 writes for a unicode string: backslash and
\* newline are written as \u005c and \u000a, Latin-1 characters as one raw
\* byte, the others as \uXXXX
RECURSIVE RawUnicodeEscapeEncode(_)
RawUnicodeEscapeEncode(s) ==
    IF s = <<>> THEN <<>>
    ELSE (IF Head(s) < 256 /\ Head(s) # 92 /\ Head(s) # 10 THEN <<Head(s)>>
          ELSE <<92, 117, HexDigit(Head(s) \div 4096),
                 HexDigit((Head(s) \div 256) % 16),
                 HexDigit((Head(s) \div 16) % 16), HexDigit(Head(s) % 16)>>)
         \o RawUnicodeEscapeEncode(Tail(s))

\* bytes.decode('raw-unicode-escape'): every byte is the character of that
\* code, except the \uXXXX escapes
RECURSIVE RawUnicodeEscapeDecode(_)
RawUnicodeEscapeDecode(b) ==
    IF b = <<>> THEN <<>>
    ELSE IF Head(b) = 92 /\ Len(b) >= 6 /\ b[2] = 117
    THEN <<HexValue(b[3]) * 4096 + HexValue(b[4]) * 256
           + HexValue(b[5]) * 16 + HexValue(b[6])>>
         \o RawUnicodeEscapeDecode(SubSeq(b, 7, Len(b)))
    ELSE <<Head(b)>> \o RawUnicodeEscapeDecode(Tail(b))

\* the body of repr() of a byte string (bytes of Python 3, str of Python 2)
RECURSIVE ReprBytes(_)
ReprBytes(b) ==
    IF b = <<>> THEN <<>>
    ELSE (IF Head(b) = 92 THEN <<92, 92>>
          ELSE IF Head(b) = 39 THEN <<92, 39>>
          ELSE IF Head(b) = 10 THEN <<92, 110>>
          ELSE IF Head(b) >= 32 /\ Head(b) < 127 THEN <<Head(b)>>
          ELSE <<92, 120, HexDigit(Head(b) \div 16), HexDigit(Head(b) % 16)>>)
         \o ReprBytes(Tail(b))

\* eval() of the body of a string literal: the value of every character or
\* escape (a byte of a b'...' literal, a code point of a '...' literal)
RECURSIVE EvalLiteral(_)
EvalLiteral(txt) ==
    IF txt = <<>> THEN <<>>
    ELSE IF Head(txt) = 92 /\ Len(txt) >= 2
    THEN IF txt[2] = 120 /\ Len(txt) >= 4
         THEN <<HexValue(txt[3]) * 16 + HexValue(txt[4])>>
              \o EvalLiteral(SubSeq(txt, 5, Len(txt)))
         ELSE <<IF txt[2] = 110 THEN 10 ELSE txt[2]>>
              \o EvalLiteral(SubSeq(txt, 3, Len(txt)))
    ELSE <<Head(txt)>> \o EvalLiteral(Tail(txt))

Codec(tag, s) ==
    CASE tag = "utf8enc" -> Utf8Encode(s)
      [] tag = "utf8dec" -> Utf8Decode(s)
      [] tag = "rawenc" -> RawUnicodeEscapeEncode(s)
      [] tag = "rawdec" -> RawUnicodeEscapeDecode(s)
      [] tag = "repr" -> ReprBytes(s)
      [] tag = "eval" -> EvalLiteral(s)

\* a codec applied to every string of a value
RECURSIVE OnLeaves(_, _)
OnLeaves(x, tag) ==
    IF x.t = "str" THEN [x EXCEPT !.v = Codec(tag, x.v)]
    ELSE IF IsContainer(x)
    THEN [x EXCEPT !.v = [i \in 1..Len(x.v) |-> OnLeaves(x.v[i], tag)]]
    ELSE IF x.t = "dict"
    THEN [x EXCEPT !.v = [k \in DOMAIN x.v |-> OnLeaves(x.v[k], tag)]]
    ELSE x

RECURSIVE LeavesUtf8Valid(_)
LeavesUtf8Valid(x) ==
    IF x.t = "str" THEN Utf8Valid(x.v)
    ELSE IF IsContainer(x)
    THEN \A i \in 1..Len(x.v) : LeavesUtf8Valid(x.v[i])
    ELSE IF x.t = "dict"
    THEN \A k \in DOMAIN x.v : LeavesUtf8Valid(x.v[k])
    ELSE TRUE

(***************************************************************************)
(* pickle.  A pickle is the pickled value with every string in the bytes   *)
(* its protocol writes: protocol 0 (the default of Python 2) writes the    *)
(* raw-unicode-escape text, the binary protocols write utf-8.              *)
(***************************************************************************)
PickleDumps(x, protocol) ==
    [kind |-> "bytes", protocol |-> protocol,
     data |-> OnLeaves(x, IF protocol = "0" THEN "rawenc" ELSE "utf8enc")]

\* pickle.loads raises on anything that is not a pickle
PickleLoadsRaises(b) ==
    \/ b.protocol \notin {"0", "2", "default"}
    \/ b.protocol # "0" /\ ~LeavesUtf8Valid(b.data)

PickleLoads(b) ==
    OnLeaves(b.data, IF b.protocol = "0" THEN "rawdec" ELSE "utf8dec")

\* repr() of a payload, as the orchestrator formats it in a statement and
\* as the target interpreter displays an execute_result: b'...' for the
\* bytes of Python 3, '...' for a str, digits for a number
Repr(payload, python) ==
    [payload EXCEPT
        !.kind = IF payload.kind = "int" THEN "int-literal"
                 ELSE IF payload.kind = "bytes" /\ python = "python3"
                 THEN "b-literal" ELSE "literal",
        !.data = OnLeaves(payload.data, "repr")]

\* eval() of such a literal: '...' is a byte string in Python 2
Eval(text, python) ==
    [text EXCEPT
        !.kind = IF text.kind = "int-literal" THEN "int"
                 ELSE IF text.kind = "b-literal" \/ python = "python2"
                 THEN "bytes" ELSE "str",
        !.data = OnLeaves(text.data, "eval")]

\* str.encode('utf-8') of a whole payload
EncodeUtf8(item) ==
    [item EXCEPT !.kind = "bytes", !.data = OnLeaves(item.data, "utf8enc")]

(***************************************************************************)
(* The session, the orchestrator's store and the target's namespace.       *)
(***************************************************************************)
Kernels == {"python3", "python2"}
\* the names the orchestrator passes to a kernel's adapter
ToKernels == {"None", "Python3", "Python2", "SoS"}

Names == {"a", "b"}
\* the names of the target's namespace that start with "sos"
SosNames == {"sos_x"}

PlainValues ==
    {StrV(<<c>>) : c \in CharCodes}
        \cup {IntV(100), ListV(<<IntV(1), StrV(<<65>>)>>)}
StoreValues == PlainValues \cup {FuncV}

Range(f) == {f[i] : i \in DOMAIN f}
SeqsUpTo(S, n) == UNION {[1..k -> S] : k \in 0..n}
Merge(g, m) ==
    [k \in DOMAIN g \cup DOMAIN m |-> IF k \in DOMAIN m THEN m[k] ELSE g[k]]

EmptyMapping == DictV(<<>>)
NoResult == [kind |-> "None", val |-> <<>>]
ValueResult(x) == [kind |-> "value", val |-> x]
CodeResult(c) == [kind |-> "code", val |-> c]

\* call: the adapter call the orchestrator is in, with what it did
Idle ==
    [op |-> "idle", arg |-> <<>>, to |-> "None", outcome |-> "none",
     result |-> NoResult, warnings |-> <<>>, requests |-> <<>>,
     loaded |-> FALSE]

Finished(op, arg, to, raised, result, warnings, requests, loaded) ==
    [op |-> op, arg |-> arg, to |-> to,
     outcome |-> IF raised THEN "raised" ELSE "returned",
     result |-> IF raised THEN NoResult ELSE result,
     warnings |-> warnings, requests |-> requests, loaded |-> loaded]

Warning(msg, about) == [msg |-> msg, about |-> about]
\* a request to the bridge: delivered tells whether the bridge carried it
\* to the target and back, answer is the list of outputs it returned, and
\* evaluated whether the target evaluated the expression it was asked about
Request(via, code, arg, filter, delivered, answer, evaluated) ==
    [via |-> via, code |-> code, arg |-> arg, filter |-> filter,
     delivered |-> delivered, answer |-> answer, evaluated |-> evaluated]

\* the protocol pickle.dumps uses by default in the target interpreter
TargetProtocol == IF kernel_name = "python3" THEN "default" ELSE "0"

(***************************************************************************)
(* get_vars                                                                *)
(***************************************************************************)
\* the statement get_vars formats for one name
GetVarsStatement(name) ==
    Repr(PickleDumps(DictV([k \in {name} |-> sos_dict[name]]),
                     IF kernel_name = "python3" THEN "default" ELSE "2"),
         "python3")

\* an interpreter runs  globals().update(pickle.loads(<literal>))
MergeLiteral(g, literal, python) ==
    IF \/ Eval(literal, python).kind # "bytes"
       \/ PickleLoadsRaises(Eval(literal, python))
    THEN [ok |-> FALSE, globals |-> g]
    ELSE [ok |-> TRUE,
          globals |-> Merge(g, PickleLoads(Eval(literal, python)).v)]

\* the target runs the statement of get_vars, with the name pickle as its
\* namespace binds it
TargetUpdate(g, literal) ==
    IF pickle_global # "module"
    THEN [ok |-> FALSE, globals |-> g]
    ELSE MergeLiteral(g, literal, kernel_name)

\* the loop of get_vars from the i-th name on; answered[i] tells whether
\* the bridge ran the i-th statement
RECURSIVE GetVarsLoop(_, _, _)
GetVarsLoop(names, answered, st) ==
    IF st.i > Len(names) THEN st
    ELSE LET name == names[st.i]
             ran == IF answered[st.i]
                    THEN TargetUpdate(st.globals, GetVarsStatement(name))
                    ELSE [ok |-> FALSE, globals |-> st.globals]
         IN  IF ~Picklable(sos_dict[name])
             THEN [st EXCEPT !.raised = TRUE]
             ELSE GetVarsLoop(names, answered,
                    [st EXCEPT
                       !.i = st.i + 1,
                       !.globals = ran.globals,
                       !.requests = Append(st.requests,
                           Request("run_cell", "globals().update", name, "",
                                   answered[st.i], <<>>, FALSE)),
                       !.warnings = IF ran.ok THEN st.warnings
                           ELSE Append(st.warnings,
                                  Warning("Failed to get variable",
                                          <<name, kernel_name>>))])

get_vars(names, answered) ==
    GetVarsLoop(names, answered,
        [i |-> 1, globals |-> globals, requests |-> <<>>,
         warnings |-> <<>>, raised |-> FALSE])

GetVars(names, answered) ==
    LET st == get_vars(names, answered)
    IN  /\ call.op = "idle"
        /\ call' = Finished("get_vars", names, "None", st.raised, NoResult,
                            st.warnings, st.requests, FALSE)
        /\ globals' = st.globals
        /\ UNCHANGED <<kernel_name, sos_dict, pickle_global, modules>>

(***************************************************************************)
(* load_pickled and put_vars                                               *)
(***************************************************************************)
\* fault injection: load_pickled without the fallback of its last branch
load_pickled_no_fallback(item) ==
    IF item.kind = "bytes"
    THEN [raised |-> PickleLoadsRaises(item),
          ret |-> IF PickleLoadsRaises(item) THEN NoResult
                  ELSE ValueResult(PickleLoads(item)),
          warnings |-> <<>>]
    ELSE IF item.kind = "str"
    THEN [raised |-> PickleLoadsRaises(EncodeUtf8(item)),
          ret |-> IF PickleLoadsRaises(EncodeUtf8(item)) THEN NoResult
                  ELSE ValueResult(PickleLoads(EncodeUtf8(item))),
          warnings |-> <<>>]
    ELSE [raised |-> FALSE, ret |-> ValueResult(item.data), warnings |-> <<>>]

load_pickled(item) ==
    IF item.kind = "bytes"
    THEN [raised |-> PickleLoadsRaises(item),
          ret |-> IF PickleLoadsRaises(item) THEN NoResult
                  ELSE ValueResult(PickleLoads(item)),
          warnings |-> <<>>]
    ELSE IF item.kind = "str"
    THEN [raised |-> PickleLoadsRaises(EncodeUtf8(item)),
          ret |-> IF PickleLoadsRaises(EncodeUtf8(item)) THEN NoResult
                  ELSE ValueResult(PickleLoads(EncodeUtf8(item))),
          warnings |-> <<>>]
    ELSE [raised |-> FALSE, ret |-> ValueResult(EmptyMapping),
          warnings |-> <<Warning("Cannot restore from result of pickle.dumps",
                                 item.kind)>>]

\* what the name pickle of the target's namespace does with dumps(x): the
\* pickle module, or what user code of the target bound to the name
TargetDumps(x) ==
    CASE pickle_global = "module" ->
            [ok |-> Picklable(x), payload |-> PickleDumps(x, TargetProtocol)]
      [] pickle_global = "json" ->
            [ok |-> Picklable(x),
             payload |-> [kind |-> "str", protocol |-> "json", data |-> x]]
      [] pickle_global = "stub" ->
            [ok |-> TRUE,
             payload |-> [kind |-> "int", protocol |-> "none", data |-> NoneV]]

\* the outputs the bridge hands back for a statement whose value is
\* dumps(x): one execute_result with the repr of the payload, or none (the
\* statement failed in the target, or the bridge lost or refused it: the
\* adapter treats an exception of the bridge and an empty list alike)
Outputs(ok, x, delivered) ==
    IF ok /\ delivered /\ TargetDumps(x).ok
    THEN <<[output |-> "execute_result",
            text |-> Repr(TargetDumps(x).payload, kernel_name)]>>
    ELSE <<>>

\* the target runs the statement of put_vars:
\*   __vars__ = {"x": x, ...}; __vars__.update(<globals named sos*>)
TargetVars(items) ==
    DictV([k \in Range(items) \cup (DOMAIN globals \cap SosNames)
              |-> globals[k]])

\* fault injection: the same-flavor test without its Python 2 half
SameFlavor_python3_only(to_kernel) ==
    kernel_name = "python3" /\ to_kernel = "Python3"

SameFlavor(to_kernel) ==
    \/ kernel_name = "python3" /\ to_kernel = "Python3"
    \/ kernel_name = "python2" /\ to_kernel = "Python2"

put_vars(items, to_kernel, delivered, debug) ==
    LET outputs == Outputs(Range(items) \subseteq DOMAIN globals,
                           TargetVars(items), delivered)
        requests == <<Request("get_response", "pickle.dumps(__vars__)",
                              items, "execute_result", delivered, outputs,
                              FALSE)>>
        response == outputs[Len(outputs)]
        got == load_pickled(Eval(response.text, "python3"))
    IN  IF outputs = <<>>
        THEN Finished("put_vars", items, to_kernel, FALSE,
                      ValueResult(EmptyMapping), <<>>, requests, FALSE)
        ELSE IF SameFlavor(to_kernel)
        THEN Finished("put_vars", items, to_kernel, FALSE,
                      CodeResult(response.text), <<>>, requests, FALSE)
        ELSE IF got.raised
        THEN Finished("put_vars", items, to_kernel, FALSE,
                      ValueResult(EmptyMapping),
                      <<Warning("Failed to import variables", items)>>,
                      requests, TRUE)
        ELSE Finished("put_vars", items, to_kernel, FALSE, got.ret,
                      IF debug
                      THEN Append(got.warnings, Warning("Get", got.ret.val))
                      ELSE got.warnings,
                      requests, TRUE)

PutVars(items, to_kernel, delivered, debug) ==
    /\ call.op = "idle"
    /\ call' = put_vars(items, to_kernel, delivered, debug)
    /\ UNCHANGED <<kernel_name, sos_dict, globals, pickle_global, modules>>

(***************************************************************************)
(* The orchestrator takes the result of the call; user code of the target  *)
(* session binds names between two calls.                                  *)
(***************************************************************************)
Return ==
    /\ call.op # "idle"
    /\ call' = Idle
    /\ UNCHANGED <<kernel_name, sos_dict, globals, pickle_global, modules>>

\* a cell of the target:  sos_x = <value>
UserBind(name, value) ==
    /\ call.op = "idle"
    /\ globals' = Merge(globals, [k \in {name} |-> value])
    /\ UNCHANGED <<kernel_name, sos_dict, pickle_global, modules, call>>

\* a cell of the target that rebinds the name pickle
UserBindPickle(binding) ==
    /\ call.op = "idle"
    /\ pickle_global' = binding
    /\ UNCHANGED <<kernel_name, sos_dict, globals, modules, call>>

PickleBindings == {"module", "json", "stub"}

InitExchange ==
    /\ kernel_name \in Kernels
    /\ sos_dict \in [Names -> StoreValues]
    /\ globals = <<>>
    /\ pickle_global = "module"
    /\ modules = <<>>
    /\ call = Idle

NextExchange ==
    \/ \E names \in SeqsUpTo(Names, MaxItems) :
         \E answered \in [1..Len(names) -> BOOLEAN] : GetVars(names, answered)
    \/ \E items \in SeqsUpTo(Names, MaxItems), to_kernel \in ToKernels,
          delivered \in BOOLEAN, debug \in BOOLEAN :
         PutVars(items, to_kernel, delivered, debug)
    \/ \E value \in {IntV(1), FuncV} : UserBind("sos_x", value)
    \/ \E binding \in PickleBindings : UserBindPickle(binding)
    \/ Return

SpecExchange == InitExchange /\ [][NextExchange]_vars

(***************************************************************************)
(* expand.  A template is a sequence of tokens: "t" a piece of plain text, *)
(* "{" and "}" the braces, "${" the left marker of the sigil '${ }', and   *)
(* the names, which are expressions of the target when in a placeholder.   *)
(***************************************************************************)
Tokens == {"t", "{", "}", "${"} \cup Names
Sigils == {"{ }", "${ }"}

\* str.replace('{', '{{').replace('}', '}}') of a piece of text
RECURSIVE DoubleBraces(_)
DoubleBraces(text) ==
    IF text = <<>> THEN <<>>
    ELSE (IF Head(text) \in {"{", "}"} THEN <<Head(text), Head(text)>>
          ELSE <<Head(text)>>)
         \o DoubleBraces(Tail(text))

\* the index of the first token of text that is in S, or 0
RECURSIVE Find(_, _, _)
Find(text, S, i) ==
    IF i > Len(text) THEN 0
    ELSE IF text[i] \in S THEN i ELSE Find(text, S, i + 1)

\* sos.parser.replace_sigil(text, '${ }'): what stands between "${" and
\* the next "}" becomes a placeholder of the default sigil, and the braces
\* of the text around it are doubled
RECURSIVE replace_sigil(_)
replace_sigil(text) ==
    LET l == Find(text, {"${"}, 1)
        r == Find(text, {"}"}, l + 1)
    IN  IF l = 0 \/ r = 0 THEN DoubleBraces(text)
        ELSE DoubleBraces(SubSeq(text, 1, l - 1))
             \o <<"{">> \o SubSeq(text, l + 1, r - 1) \o <<"}">>
             \o replace_sigil(SubSeq(text, r + 1, Len(text)))

\* the characters of a template: "${" is a "$" and a brace
RECURSIVE Characters(_)
Characters(text) ==
    IF text = <<>> THEN <<>>
    ELSE (IF Head(text) = "${" THEN <<"$", "{">> ELSE <<Head(text)>>)
         \o Characters(Tail(text))

\* str() of the value the target binds to a name
Shown == [n \in Names |-> IF n = "a" THEN "<a>" ELSE "<b>"]

\* the target evaluates f'<chars>': doubled braces are braces, a
\* placeholder holds one expression, here a name, that must be bound
RECURSIVE TargetFString(_, _)
TargetFString(chars, g) ==
    IF chars = <<>> THEN [ok |-> TRUE, out |-> <<>>, evalue |-> <<>>]
    ELSE IF Head(chars) \in {"{", "}"} /\ Len(chars) >= 2
            /\ chars[2] = Head(chars)
    THEN LET rest == TargetFString(Tail(Tail(chars)), g)
         IN  [rest EXCEPT !.out = <<Head(chars)>> \o rest.out]
    ELSE IF Head(chars) = "}"
    THEN [ok |-> FALSE, out |-> <<>>, evalue |-> <<"SyntaxError">>]
    ELSE IF Head(chars) = "{"
    THEN IF Len(chars) >= 3 /\ chars[2] \in Names /\ chars[3] = "}"
         THEN IF chars[2] \in DOMAIN g
              THEN LET rest == TargetFString(SubSeq(chars, 4, Len(chars)), g)
                   IN  [rest EXCEPT !.out = <<Shown[chars[2]]>> \o rest.out]
              ELSE [ok |-> FALSE, out |-> <<>>,
                    evalue |-> <<"NameError", chars[2]>>]
         ELSE [ok |-> FALSE, out |-> <<>>, evalue |-> <<"SyntaxError">>]
    ELSE LET rest == TargetFString(Tail(chars), g)
         IN  [rest EXCEPT !.out = <<Head(chars)>> \o rest.out]

expand(text, sigil, delivered1, delivered2) ==
    LET rewritten == IF sigil # "{ }" THEN replace_sigil(text) ELSE text
        ev == TargetFString(Characters(rewritten), globals)
        first == IF ev.ok /\ delivered1
                 THEN <<[output |-> "execute_result", text |-> ev.out]>>
                 ELSE <<>>
        second == IF ~ev.ok /\ delivered2
                  THEN <<[output |-> "error", evalue |-> ev.evalue]>>
                  ELSE <<>>
        arg == [text |-> text, sigil |-> sigil]
        req1 == Request("get_response", "as_fstring", rewritten,
                        "execute_result", delivered1, first, delivered1)
        req2 == Request("get_response", "as_fstring", rewritten,
                        "error", delivered2, second, delivered2)
    IN  IF first # <<>>
        THEN Finished("expand", arg, "None", FALSE,
                      [kind |-> "text", val |-> first[Len(first)].text],
                      <<>>, <<req1>>, FALSE)
        ELSE IF second = <<>>
        THEN Finished("expand", arg, "None", TRUE, NoResult, <<>>,
                      <<req1, req2>>, FALSE)
        ELSE Finished("expand", arg, "None", FALSE,
                      [kind |-> "text", val |-> rewritten],
                      <<Warning("Failed to expand",
                                <<rewritten, second[1].evalue>>)>>,
                      <<req1, req2>>, FALSE)

Expand(text, sigil, delivered1, delivered2) ==
    /\ call.op = "idle"
    /\ call' = expand(text, sigil, delivered1, delivered2)
    /\ UNCHANGED <<kernel_name, sos_dict, globals, pickle_global, modules>>

InitExpand ==
    /\ kernel_name \in Kernels
    /\ sos_dict \in [Names -> {IntV(100)}]
    /\ globals = <<>>
    /\ pickle_global = "module"
    /\ modules = <<>>
    /\ call = Idle

NextExpand ==
    \/ \E text \in SeqsUpTo(Tokens, MaxText), sigil \in Sigils,
          delivered1 \in BOOLEAN, delivered2 \in BOOLEAN :
         Expand(text, sigil, delivered1, delivered2)
    \/ \E name \in Names : UserBind(name, IntV(100))
    \/ Return

SpecExpand == InitExpand /\ [][NextExpand]_vars

(***************************************************************************)
(* __short_repr, the helper of the target.  Its result is a string, as a   *)
(* sequence of character codes.                                            *)
(***************************************************************************)
\* the names as Python writes them
NameText ==
    [n \in Names \cup SosNames |->
        IF n = "a" THEN <<97>> ELSE IF n = "b" THEN <<98>>
        ELSE <<115, 111, 115, 95, 120>>]
\* the order in which a mapping yields its keys
NameOrder == <<"a", "b", "sos_x">>
FirstKey(m) ==
    NameOrder[CHOOSE i \in 1..Len(NameOrder) :
                 /\ NameOrder[i] \in DOMAIN m
                 /\ \A j \in 1..(i - 1) : NameOrder[j] \notin DOMAIN m]

RECURSIVE Digits(_)
Digits(n) ==
    IF n < 10 THEN <<48 + n>> ELSE Digits(n \div 10) \o <<48 + (n % 10)>>
\* repr() and str() of an integer
IntRepr(n) == IF n < 0 THEN <<45>> \o Digits(0 - n) ELSE Digits(n)

\* str.replace('\n', '\\n')
RECURSIVE EscapeNewlines(_)
EscapeNewlines(s) ==
    IF s = <<>> THEN <<>>
    ELSE (IF Head(s) = 10 THEN <<92, 110>> ELSE <<Head(s)>>)
         \o EscapeNewlines(Tail(s))

RECURSIVE EscapeQuoted(_, _)
EscapeQuoted(s, quote) ==
    IF s = <<>> THEN <<>>
    ELSE (IF Head(s) = 10 THEN <<92, 110>>
          ELSE IF Head(s) \in {92, quote} THEN <<92, Head(s)>>
          ELSE <<Head(s)>>)
         \o EscapeQuoted(Tail(s), quote)

\* repr() of a string of Python 3: in double quotes when it holds a single
\* quote and no double quote
StrRepr(s) ==
    IF 39 \in Range(s) /\ 34 \notin Range(s)
    THEN <<34>> \o EscapeQuoted(s, 34) \o <<34>>
    ELSE <<39>> \o EscapeQuoted(s, 39) \o <<39>>

\* str() of the values no earlier branch of __short_repr takes
FallbackStr(x) ==
    IF x.t = "function"
    THEN \* <function <lambda> at 0x7f3c5e0d1f70>
         <<60, 102, 117, 110, 99, 116, 105, 111, 110, 32, 60, 108, 97, 109,
           98, 100, 97, 62, 32, 97, 116, 32, 48, 120, 55, 102, 51, 99, 53,
           101, 48, 100, 49, 102, 55, 48, 62>>
    ELSE \* <module 'numpy' from '/usr/lib/numpy/__init__.py'>
         <<60, 109, 111, 100, 117, 108, 101, 32, 39, 110, 117, 109, 112,
           121, 39, 32, 102, 114, 111, 109, 32, 39, 47, 117, 115, 114, 47,
           108, 105, 98, 47, 110, 117, 109, 112, 121, 47, 95, 95, 105, 110,
           105, 116, 95, 95, 46, 112, 121, 39, 62>>

ItemsSuffix(n) ==
    <<44, 32, 46, 46, 46, 32, 40>> \o IntRepr(n)
        \o <<32, 105, 116, 101, 109, 115, 41>>

\* fault injection: __short_repr that also shows the last element of a
\* sequence of three or more
RECURSIVE short_repr_shows_last(_)
short_repr_shows_last(obj) ==
    IF obj.t = "NoneType" THEN <<78, 111, 110, 101>>
    ELSE IF obj.t = "str" THEN StrRepr(obj.v)
    ELSE IF obj.t = "int" THEN IntRepr(obj.v)
    ELSE IF obj.t = "bool"
    THEN (IF obj.v THEN <<84, 114, 117, 101>> ELSE <<70, 97, 108, 115, 101>>)
    ELSE IF IsContainer(obj)
    THEN IF Len(obj.v) = 0 THEN <<91, 93>>
         ELSE IF Len(obj.v) = 1 THEN short_repr_shows_last(obj.v[1])
         ELSE IF Len(obj.v) = 2
         THEN short_repr_shows_last(obj.v[1]) \o <<44, 32>>
              \o short_repr_shows_last(obj.v[2])
         ELSE short_repr_shows_last(obj.v[1]) \o <<44, 32>>
              \o short_repr_shows_last(obj.v[2]) \o <<44, 32>>
              \o short_repr_shows_last(obj.v[Len(obj.v)])
              \o ItemsSuffix(Len(obj.v))
    ELSE FallbackStr(obj)

RECURSIVE short_repr(_)
short_repr(obj) ==
    IF obj.t = "NoneType" THEN <<78, 111, 110, 101>>
    ELSE IF obj.t = "str" /\ Len(obj.v) > 80
    THEN EscapeNewlines(SubSeq(obj.v, 1, 60)) \o <<46, 46, 46>>
         \o EscapeNewlines(SubSeq(obj.v, Len(obj.v) - 19, Len(obj.v)))
    ELSE IF obj.t = "str" THEN StrRepr(obj.v)
    ELSE IF obj.t = "int" THEN IntRepr(obj.v)
    ELSE IF obj.t = "bool"
    THEN (IF obj.v THEN <<84, 114, 117, 101>> ELSE <<70, 97, 108, 115, 101>>)
    ELSE IF IsContainer(obj)
    THEN IF Len(obj.v) = 0 THEN <<91, 93>>
         ELSE IF Len(obj.v) = 1 THEN short_repr(obj.v[1])
         ELSE IF Len(obj.v) = 2
         THEN short_repr(obj.v[1]) \o <<44, 32>> \o short_repr(obj.v[2])
         ELSE short_repr(obj.v[1]) \o <<44, 32>> \o short_repr(obj.v[2])
              \o ItemsSuffix(Len(obj.v))
    ELSE IF obj.t = "dict"
    THEN IF DOMAIN obj.v = {} THEN <<>>
         ELSE IF Cardinality(DOMAIN obj.v) = 1
         THEN short_repr(StrV(StrRepr(NameText[FirstKey(obj.v)])))
              \o <<58>> \o short_repr(obj.v[FirstKey(obj.v)])
         ELSE short_repr(StrV(NameText[FirstKey(obj.v)]))
              \o <<58>> \o short_repr(obj.v[FirstKey(obj.v)])
              \o ItemsSuffix(Cardinality(DOMAIN obj.v))
    ELSE IF Len(FallbackStr(obj)) > 40
    THEN SubSeq(FallbackStr(obj), 1, 35) \o <<46, 46, 46>>
    ELSE FallbackStr(obj)

(***************************************************************************)
(* __preview_var and preview                                               *)
(***************************************************************************)
ModuleNames == {"numpy", "boto", "os"}
\* the namespace of the target: the names user code bound, and the modules
\* it imported, each under its own name
TargetGlobals ==
    Merge(globals, [m \in Range(modules) |-> ModuleV(m)])

PreviewItems == Names \cup {"a[1]", "numpy"}
\* the name an expression starts with
BaseName(item) == IF item = "a[1]" THEN "a" ELSE item

\* type(obj).__name__, with the length of a Sized object
TypeLabel(obj) ==
    TextV(IF IsContainer(obj) \/ obj.t = "str"
          THEN <<obj.t, " of length ", ToString(Len(obj.v))>>
          ELSE IF obj.t = "dict"
          THEN <<obj.t, " of length ", ToString(Cardinality(DOMAIN obj.v))>>
          ELSE <<obj.t>>)

Described(obj) ==
    IF obj.t \in {"module", "function"}
    THEN TupleV(<<TypeLabel(obj), TupleV(<<DocV, DictV(<<>>)>>)>>)
    ELSE TupleV(<<TypeLabel(obj), StrV(short_repr(obj))>>)

UnknownVariable(item) ==
    TupleV(<<TextV(<<>>), TextV(<<"Unknown variable ", item>>)>>)

\* fault injection: __preview_var that looks up the name the expression
\* starts with, and evaluates the expression when that name is bound
preview_var_by_base_name(item, g) ==
    IF BaseName(item) \notin DOMAIN g
    THEN [evaluated |-> FALSE, value |-> UnknownVariable(item)]
    ELSE [evaluated |-> TRUE, value |-> Described(g[BaseName(item)])]

preview_var(item, g) ==
    IF item \notin DOMAIN g
    THEN [evaluated |-> FALSE, value |-> UnknownVariable(item)]
    ELSE [evaluated |-> TRUE, value |-> Described(g[item])]

NoPreview(error) ==
    ValueResult(TupleV(<<TextV(<<>>),
                         TextV(<<"No preview is available ", error>>)>>))

preview(item, delivered) ==
    LET pv == preview_var(item, TargetGlobals)
        outputs == Outputs(TRUE, pv.value, delivered)
        requests == <<Request("get_response", "pickle.dumps(__preview_var)",
                              item, "execute_result", delivered, outputs,
                              delivered /\ pv.evaluated)>>
        got == load_pickled(Eval(outputs[Len(outputs)].text, "python3"))
    IN  IF outputs = <<>>
        THEN Finished("preview", item, "None", FALSE,
                      NoPreview("list index out of range"), <<>>, requests,
                      FALSE)
        ELSE IF got.raised
        THEN Finished("preview", item, "None", FALSE,
                      NoPreview("UnpicklingError"), <<>>, requests, TRUE)
        ELSE Finished("preview", item, "None", FALSE, got.ret, got.warnings,
                      requests, TRUE)

Preview(item, delivered) ==
    /\ call.op = "idle"
    /\ call' = preview(item, delivered)
    /\ UNCHANGED <<kernel_name, sos_dict, globals, pickle_global, modules>>

(***************************************************************************)
(* __version_info__, __loaded_modules__ and sessioninfo                    *)
(***************************************************************************)
\* numpy has a __version__; boto stands for a module that has none and is
\* a distribution pkg_resources knows; os has neither
version_info(module) ==
    IF module = "numpy" THEN "1.21.0"
    ELSE IF module = "boto" THEN "2.49.0"
    ELSE "na"

RECURSIVE ModulePairs(_)
ModulePairs(ms) ==
    IF ms = <<>> THEN <<>>
    ELSE <<<<Head(ms), version_info(Head(ms))>>>> \o ModulePairs(Tail(ms))

\* fault injection: __loaded_modules__ without the filter of its last line
loaded_modules_unfiltered(ms) ==
    [i \in 1..Len(ms) |-> TupleV(<<TextV(<<ms[i]>>),
                                   TextV(<<version_info(ms[i])>>)>>)]

loaded_modules(ms) ==
    LET res == ModulePairs(ms)
        kept == SelectSeq(res, LAMBDA p : p[2] # "na")
    IN  [i \in 1..Len(kept) |-> TupleV(<<TextV(<<kept[i][1]>>),
                                         TextV(<<kept[i][2]>>)>>)]

SysVersion == IF kernel_name = "python3" THEN "3.8.10" ELSE "2.7.18"

\* the statement imports pickle before it uses it
sessioninfo(delivered) ==
    LET res == ListV(<<TupleV(<<TextV(<<"Version">>), TextV(<<SysVersion>>)>>)>>
                     \o loaded_modules(modules))
        outputs == IF delivered
                   THEN <<[output |-> "execute_result",
                           text |-> Repr(PickleDumps(res, TargetProtocol),
                                         kernel_name)]>>
                   ELSE <<>>
        requests == <<Request("get_response", "pickle.dumps(res)", <<>>,
                              "execute_result", delivered, outputs, FALSE)>>
        got == load_pickled(Eval(outputs[1].text, "python3"))
    IN  IF outputs = <<>> \/ got.raised
        THEN Finished("sessioninfo", <<>>, "None", TRUE, NoResult, <<>>,
                      requests, outputs # <<>>)
        ELSE Finished("sessioninfo", <<>>, "None", FALSE, got.ret,
                      got.warnings, requests, TRUE)

SessionInfo(delivered) ==
    /\ call.op = "idle"
    /\ call' = sessioninfo(delivered)
    /\ pickle_global' = IF delivered THEN "module" ELSE pickle_global
    /\ UNCHANGED <<kernel_name, sos_dict, globals, modules>>

\* a cell of the target:  import <module>
UserImport(module) ==
    /\ call.op = "idle"
    /\ module \notin Range(modules)
    /\ modules' = Append(modules, module)
    /\ UNCHANGED <<kernel_name, sos_dict, globals, pickle_global, call>>

\* the list 0, 1, ..., n - 1
RangeList(n) == ListV([i \in 1..n |-> IntV(i - 1)])

PreviewValues ==
    {IntV(100), StrV(<<65>>), NoneV, FuncV, RangeList(100)}
        \cup {RangeList(n) : n \in 0..MaxLen}

InitInspect ==
    /\ kernel_name \in Kernels
    /\ sos_dict \in [Names -> {IntV(100)}]
    /\ globals = <<>>
    /\ pickle_global = "module"
    /\ modules = <<>>
    /\ call = Idle

NextInspect ==
    \/ \E item \in PreviewItems, delivered \in BOOLEAN :
         Preview(item, delivered)
    \/ \E delivered \in BOOLEAN : SessionInfo(delivered)
    \/ \E name \in Names, value \in PreviewValues : UserBind(name, value)
    \/ \E binding \in PickleBindings : UserBindPickle(binding)
    \/ \E module \in ModuleNames : UserImport(module)
    \/ Return

SpecInspect == InitInspect /\ [][NextInspect]_vars

(***************************************************************************)
(* __short_repr on its own: the namespace binds a to the value, and the    *)
(* call computes its short representation.                                 *)
(***************************************************************************)
ReprElements ==
    {IntV(0), IntV(1), IntV(99), StrV(<<65>>), NoneV, RangeList(3)}

\* a string of n characters
LongString(n) == StrV([i \in 1..n |-> IF i = 2 THEN 10 ELSE 65])

ReprInputs ==
    {ListV(xs) : xs \in SeqsUpTo(ReprElements, MaxLen)}
        \cup {TupleV(<<IntV(1), IntV(2), IntV(3)>>), RangeList(100)}
        \cup {LongString(80), LongString(81), BoolV(TRUE), FuncV,
              ModuleV("numpy")}
        \cup {DictV(<<>>), DictV([k \in {"b"} |-> IntV(1)]),
              DictV([k \in Names |-> IntV(1)])}

ShortRepr ==
    /\ call.op = "idle"
    /\ call' = Finished("__short_repr", globals["a"], "None", FALSE,
                        ValueResult(StrV(short_repr(globals["a"]))), <<>>,
                        <<>>, FALSE)
    /\ UNCHANGED <<kernel_name, sos_dict, globals, pickle_global, modules>>

InitRepr ==
    /\ kernel_name = "python3"
    /\ sos_dict \in [Names -> {IntV(100)}]
    /\ globals \in [{"a"} -> ReprInputs]
    /\ pickle_global = "module"
    /\ modules = <<>>
    /\ call = Idle

NextRepr == ShortRepr \/ Return

SpecRepr == InitRepr /\ [][NextRepr]_vars

(***************************************************************************)
(* Properties                                                              *)
(***************************************************************************)
\* the outputs the bridge returned to the call's i-th request
Answer(i) == call.requests[i].answer
HasWarning(msg) == \E i \in 1..Len(call.warnings) : call.warnings[i].msg = msg
FlavorPairs == {<<"python3", "Python3">>, <<"python2", "Python2">>}
\* the payload put_vars received, as the adapter evaluates it
Received == Eval(Answer(1)[1].text, "python3")
Undecodable(item) ==
    \/ item.kind = "bytes" /\ PickleLoadsRaises(item)
    \/ item.kind = "str" /\ PickleLoadsRaises(EncodeUtf8(item))

\* C2: put_vars never raises, and returns an empty mapping when the bridge
\* returns no execute_result, when (cross-flavor) the payload is neither
\* bytes nor a string (with a warning), and when deserializing the payload
\* raises (with a warning naming the requested items).
C2_PutVarsFailsEmpty ==
    call.op = "put_vars" =>
        /\ call.outcome = "returned"
        /\ Answer(1) = <<>> =>
              /\ call.result = ValueResult(EmptyMapping)
              /\ ~call.loaded
        /\ (Answer(1) # <<>> /\ <<kernel_name, call.to>> \notin FlavorPairs) =>
              /\ Received.kind \notin {"bytes", "str"} =>
                    /\ call.result = ValueResult(EmptyMapping)
                    /\ HasWarning("Cannot restore from result of pickle.dumps")
              /\ Undecodable(Received) =>
                    /\ call.result = ValueResult(EmptyMapping)
                    /\ \E i \in 1..Len(call.warnings) :
                          call.warnings[i] =
                              Warning("Failed to import variables", call.arg)

\* a cross-flavor put_vars that received a payload that is neither bytes
\* nor a string
C2_Witness ==
    /\ call.op = "put_vars"
    /\ Answer(1) # <<>>
    /\ <<kernel_name, call.to>> \notin FlavorPairs
    /\ Received.kind = "int"
    /\ call.result = ValueResult(EmptyMapping)

\* a put_vars whose payload could not be deserialized
C2_WitnessUndecodable ==
    /\ call.op = "put_vars"
    /\ Answer(1) # <<>>
    /\ <<kernel_name, call.to>> \notin FlavorPairs
    /\ Undecodable(Received)

\* C3 (as claimed): after get_vars([n]) the target binds n to the store's
\* value, and a cross-flavor put_vars([n]) the bridge answers then returns a
\* mapping in which n is equal to the store's plain-data value.
C3_RoundTrip ==
    /\ (call.op = "get_vars" /\ call.outcome = "returned") =>
          \A i \in 1..Len(call.arg) :
             (call.requests[i].delivered /\ pickle_global = "module") =>
                /\ call.arg[i] \in DOMAIN globals
                /\ globals[call.arg[i]] = sos_dict[call.arg[i]]
    /\ ( /\ call.op = "put_vars"
         /\ <<kernel_name, call.to>> \notin FlavorPairs
         /\ pickle_global = "module"
         /\ Answer(1) # <<>> ) =>
          \A n \in Range(call.arg) :
             (sos_dict[n] \in PlainValues /\ globals[n] = sos_dict[n]) =>
                /\ call.result.kind = "value"
                /\ call.result.val.t = "dict"
                /\ n \in DOMAIN call.result.val.v
                /\ call.result.val.v[n] = sos_dict[n]

\* C5: a same-flavor put_vars the bridge answered returns, without
\* deserializing, a code string that merges the payload in a destination of
\* the same dialect; every other combination deserializes in the adapter
\* and returns a mapping.
C5_SameFlavorNeverLoads ==
    (call.op = "put_vars" /\ Answer(1) # <<>>) =>
        IF <<kernel_name, call.to>> \in FlavorPairs
        THEN /\ ~call.loaded
             /\ call.result = CodeResult(Answer(1)[1].text)
             /\ pickle_global = "module" =>
                   MergeLiteral(<<>>, call.result.val, kernel_name)
                      = [ok |-> TRUE, globals |-> TargetVars(call.arg).v]
        ELSE /\ call.loaded
             /\ call.result.kind = "value"
             /\ call.result.val.t = "dict"

C5_Witness ==
    /\ call.op = "put_vars"
    /\ Answer(1) # <<>>
    /\ kernel_name = "python2" /\ call.to = "Python2"
    /\ call.arg # <<>>
    /\ call.result.kind = "code"

C5_WitnessCross ==
    /\ call.op = "put_vars"
    /\ Answer(1) # <<>>
    /\ kernel_name = "python3" /\ call.to = "Python2"
    /\ call.result.kind = "value"
    /\ call.result.val.v # <<>>

\* C9 (as claimed): in a get_vars or put_vars over several names, a value
\* that cannot be serialized does not fail the exchange: the call returns
\* and the other names are transferred.
C9_UnserializableSpared ==
    /\ (call.op = "get_vars" /\ Len(call.arg) >= 2) =>
          /\ call.outcome = "returned"
          /\ \A i \in 1..Len(call.arg) :
                Picklable(sos_dict[call.arg[i]]) =>
                   \E j \in 1..Len(call.requests) :
                      call.requests[j].arg = call.arg[i]
    /\ ( /\ call.op = "put_vars"
         /\ Len(call.arg) >= 2
         /\ call.requests[1].delivered
         /\ pickle_global = "module"
         /\ <<kernel_name, call.to>> \notin FlavorPairs
         /\ Range(call.arg) \subseteq DOMAIN globals ) =>
          /\ call.outcome = "returned"
          /\ \A n \in Range(call.arg) :
                Picklable(globals[n]) =>
                   /\ n \in DOMAIN call.result.val.v
                   /\ call.result.val.v[n] = globals[n]

\* C10 (as claimed): get_vars issues exactly one request per name, in the
\* order given; put_vars, preview and sessioninfo issue exactly one;
\* expand issues one when evaluation succeeds and two when it fails.
C10_RequestCounts ==
    /\ call.op = "get_vars" =>
          /\ Len(call.requests) = Len(call.arg)
          /\ \A i \in 1..Len(call.arg) : call.requests[i].arg = call.arg[i]
    /\ call.op \in {"put_vars", "preview", "sessioninfo"} =>
          Len(call.requests) = 1
    /\ call.op = "expand" =>
          Len(call.requests) = IF Answer(1) # <<>> THEN 1 ELSE 2

\* C4 (as claimed): when the evaluation of the template fails in the
\* target, expand warns with the message of the error output and returns
\* the text it was called with, whatever the sigil.
C4_ExpandFallback ==
    (call.op = "expand" /\ Answer(1) = <<>> /\ Answer(2) # <<>>) =>
        /\ call.outcome = "returned"
        /\ \E i \in 1..Len(call.warnings) :
              /\ call.warnings[i].msg = "Failed to expand"
              /\ call.warnings[i].about[2] = Answer(2)[1].evalue
        /\ call.result = [kind |-> "text", val |-> call.arg.text]

\* C1 (as claimed): no operation of the adapter raises into its caller,
\* whatever the bridge returned.
C1_NeverRaises ==
    call.op \in {"get_vars", "put_vars", "expand", "preview", "sessioninfo"}
        => call.outcome = "returned"

C6_WitnessEvaluated ==
    /\ call.op = "preview"
    /\ call.arg = "a"
    /\ call.requests[1].evaluated
    /\ call.result.val.t = "tuple"

\* seq holds sub as a run of consecutive characters
Contains(seq, sub) ==
    \E i \in 1..(Len(seq) - Len(sub) + 1) :
        SubSeq(seq, i, i + Len(sub) - 1) = sub

\* C7: the short representation of a list or tuple of n elements is "[]"
\* for n = 0, that of its element for n = 1, "e0, e1" for n = 2 and
\* "e0, e1, ... (<n> items)" for n >= 3: it holds the count and depends on
\* no element after the second, and for the list 0..99 it holds 0, 1 and
\* 100 and not 99.
C7_SequenceShortRepr ==
    (call.op = "__short_repr" /\ call.arg.t \in {"list", "tuple"}) =>
        LET xs == call.arg.v
            n == Len(xs)
            out == call.result.val.v
            e(i) == short_repr(xs[i])
        IN  /\ n = 0 => out = <<91, 93>>
            /\ n = 1 => out = e(1)
            /\ n = 2 => out = e(1) \o <<44, 32>> \o e(2)
            /\ n >= 3 =>
                  /\ out = e(1) \o <<44, 32>> \o e(2)
                           \o <<44, 32, 46, 46, 46, 32, 40>> \o Digits(n)
                           \o <<32, 105, 116, 101, 109, 115, 41>>
                  /\ out = short_repr(ListV([i \in 1..n |->
                               IF i <= 2 THEN xs[i] ELSE NoneV]))
            /\ call.arg = RangeList(100) =>
                  /\ Contains(out, <<48>>) /\ Contains(out, <<49>>)
                  /\ Contains(out, <<49, 48, 48>>)
                  /\ ~Contains(out, <<57, 57>>)

\* the short representation of a list of four elements that ends with 99
C7_Witness ==
    /\ call.op = "__short_repr"
    /\ call.arg = ListV(<<IntV(0), StrV(<<65>>), NoneV, IntV(99)>>)
    /\ call.result.val.v
          = <<48, 44, 32, 39, 65, 39, 44, 32, 46, 46, 46, 32, 40, 52, 32,
              105, 116, 101, 109, 115, 41>>

C7_WitnessRange ==
    /\ call.op = "__short_repr"
    /\ call.arg = RangeList(100)
    /\ Len(call.result.val.v) = 21

\* C8: when sessioninfo returns, its result is a list that starts with
\* ("Version", <version of the interpreter>) and goes on with (module,
\* version) pairs of modules the target's namespace binds, none of them a
\* module whose version lookup failed both ways.
C8_SessionInfo ==
    (call.op = "sessioninfo" /\ call.outcome = "returned") =>
        /\ call.result.kind = "value"
        /\ call.result.val.t = "list"
        /\ Len(call.result.val.v) >= 1
        /\ call.result.val.v[1]
              = TupleV(<<TextV(<<"Version">>),
                         TextV(<<IF kernel_name = "python3"
                                 THEN "3.8.10" ELSE "2.7.18">>)>>)
        /\ \A i \in 2..Len(call.result.val.v) :
              LET pair == call.result.val.v[i]
              IN  /\ pair.t = "tuple" /\ Len(pair.v) = 2
                  /\ pair.v[1].v[1] \in Range(modules)
                  /\ pair.v[1].v[1] \in {"numpy", "boto"}
                  /\ pair.v[2].v[1] # "na"

\* sessioninfo of a session that imported os and numpy
C8_Witness ==
    /\ call.op = "sessioninfo"
    /\ call.outcome = "returned"
    /\ "os" \in Range(modules)
    /\ "numpy" \in Range(modules)
    /\ Len(call.result.val.v) = 2

====
